---- MODULE Spec2Model ----
(***************************************************************************)
(* Siteguard: a WAF / reverse proxy (siteguard_app.py) with a SQLite block *)
(* ledger and audit log (database.py).                                     *)
(*                                                                         *)
(* Time is the wall clock in whole seconds (time.time() and                *)
(* datetime.now() read the same clock).  A path is the sequence of chunks  *)
(* whose concatenation is the URL path, so that str.startswith and == are  *)
(* computed on it; a log reason is a sequence of chunks in the same way,   *)
(* so that LIKE 'IP BLOCKED:%' is computed on it.                          *)
(***************************************************************************)
EXTENDS Integers, Sequences, FiniteSets, TLC

\* ---- configuration (siteguard_app.py) ----
RATE_LIMIT_REQUESTS == 20
RATE_LIMIT_WINDOW == 10
BRUTE_FORCE_ATTEMPTS == 5
BRUTE_FORCE_WINDOW == 300
DIR_SCAN_404S == 10
DIR_SCAN_WINDOW == 60
BLOCK_DURATION_MINUTES == 10
\* datetime.timedelta(minutes=minutes): seconds in one minute
SecondsPerMinute == 60

\* the reasons the gates block with
RateBlock == "Rate Limit (DoS)"
BruteBlock == "Brute Force"
ScanBlock == "Directory Scan (404s)"

\* ---- bounds of the model ----
\* clock advances per behaviour
MaxTicks == 1
\* non-dashboard requests per behaviour, by workload
MaxFlood == 22
MaxLogin == 9
MaxScan == 13
MaxMixed == 2
\* requests per behaviour when the workers' steps interleave, by workload
MaxConcFlood == 3
MaxConcLogin == 8

Workers == {"w1", "w2"}
MainWorker == "w1"
IPs == {"a", "b"}
Workloads == {"flood", "bruteforce", "scan", "mixed"}

VARIABLES
    now,                      \* the wall clock
    ticks,                    \* how often the clock has advanced
    workload,                 \* what the clients send in this behaviour
    ip_request_tracker,       \* siteguard_app.py:38
    ip_failed_login_tracker,  \* siteguard_app.py:39
    ip_404_tracker,           \* siteguard_app.py:40
    blocked_ips,              \* table blocked_ips: a set of rows
    suspicious_logs,          \* table suspicious_logs: rows in id order
    pc,                       \* per worker: where its request is
    req,                      \* per worker: the request it handles
    loc,                      \* per worker: the handler's local variables
    hist,                     \* ghost, per identity: what RequestGate did, in order
    resp,                     \* ghost, per identity: what ResponseGate did, in order
    blocks,                   \* ghost, per identity: committed ledger upserts, in order
    ledger_ops,               \* ghost: ledger statements issued by the two gates
    dash_errors,              \* ghost: dashboard requests a gate did not let pass
    faulted                   \* whether a persistence call has failed

vars == <<now, ticks, workload, ip_request_tracker, ip_failed_login_tracker,
          ip_404_tracker, blocked_ips, suspicious_logs, pc, req, loc,
          hist, resp, blocks, ledger_ops, dash_errors, faulted>>

trackers == <<ip_request_tracker, ip_failed_login_tracker, ip_404_tracker>>
database == <<blocked_ips, suspicious_logs>>
ghosts == <<hist, resp, blocks, ledger_ops, dash_errors>>

\* ---- paths, requests ----
DashboardPrefix == <<"/siteguard_dashboard">>
LoginPath == <<"/login">>
HomePath == <<"/">>
MissingPath == <<"/missing">>
DashboardDataPath == <<"/siteguard_dashboard", "/data">>
\* the dashboard page, its data, and a path under the prefix that no view serves
DashboardPaths ==
    {<<"/siteguard_dashboard">>, DashboardDataPath, <<"/siteguard_dashboard", "/x">>}
NoPath == <<"N/A">>

\* str.startswith
StartsWith(path, prefix) ==
    /\ Len(path) >= Len(prefix)
    /\ SubSeq(path, 1, Len(prefix)) = prefix

\* the test of siteguard_app.py:53 and :92
IsDashboardExact(path) == path = DashboardPrefix
IsDashboard(path) == StartsWith(path, DashboardPrefix)

\* The status of the response: the dashboard view, or what the origin
\* (target_app.py) answers to the proxied request.  form: the credentials of a
\* login form, "good" (admin / password123) or "bad".
OriginStatus(r) ==
    IF r.path = DashboardPrefix \/ r.path = DashboardDataPath THEN 200
    ELSE IF r.path = LoginPath THEN
        (IF r.method = "POST" /\ r.form # "good" THEN 401 ELSE 200)
    ELSE IF r.path = HomePath THEN 200
    ELSE 404

\* ---- sliding window ----
\* [t for t in times if current_time - t < window]
PruneNever(times, t, window) == times
Prune(times, t, window) == SelectSeq(times, LAMBDA x : t - x < window)

\* len(valid) > limit
ExceedsAtLimit(n, limit) == n >= limit
Exceeds(n, limit) == n > limit

\* ---- database.py ----
NoFault == "none"
BlockedPrefix == "IP BLOCKED:"
\* f"IP BLOCKED: {reason}"
BlockedReason(reason) == <<BlockedPrefix, " ", reason>>
\* reason LIKE 'IP BLOCKED:%'
LikeBlocked(reason) == Len(reason) >= 1 /\ reason[1] = BlockedPrefix

RowsOf(ledger, ip) == {r \in ledger : r.ip_address = ip}

\* INSERT OR REPLACE INTO blocked_ips: ip_address is the primary key
UpsertInsert(ledger, ip, until, reason) ==
    ledger \cup {[ip_address |-> ip, blocked_until |-> until, reason |-> reason]}
Upsert(ledger, ip, until, reason) ==
    (ledger \ RowsOf(ledger, ip))
        \cup {[ip_address |-> ip, blocked_until |-> until, reason |-> reason]}

\* DELETE FROM blocked_ips WHERE ip_address = ?
DeleteKeep(ledger, ip) == ledger
Delete(ledger, ip) == ledger \ RowsOf(ledger, ip)

\* blocked_until > datetime.datetime.now()
IsActiveInverted(row, t) == row.blocked_until < t
IsActiveNever(row, t) == FALSE
IsActiveAtExpiry(row, t) == row.blocked_until >= t
IsActive(row, t) == row.blocked_until > t

\* log_suspicious_activity(ip, reason, path).  fault: "connect" (sqlite3.connect
\* raises: the except clause prints, then `if conn` in the finally clause raises
\* UnboundLocalError, which leaves the function), "insert" (execute or commit
\* raises sqlite3.Error: swallowed).
LogSuspiciousActivity(logs, ip, reason, path, t, fault) ==
    IF fault = "connect" THEN [raised |-> TRUE, logs |-> logs]
    ELSE IF fault = "insert" THEN [raised |-> FALSE, logs |-> logs]
    ELSE [raised |-> FALSE,
          logs |-> Append(logs, [ip_address |-> ip, timestamp |-> t,
                                 reason |-> reason, request_path |-> path])]

\* block_ip(ip, reason, minutes).  fault: "connect", "upsert" (swallowed, the log
\* call is skipped), "log_connect", "log_insert" (faults of the nested
\* log_suspicious_activity call; the first one propagates through block_ip).
BlockIp(ledger, logs, ip, reason, minutes, t, fault) ==
    IF fault = "connect" THEN
        [raised |-> TRUE, ledger |-> ledger, logs |-> logs, upserted |-> FALSE]
    ELSE IF fault = "upsert" THEN
        [raised |-> FALSE, ledger |-> ledger, logs |-> logs, upserted |-> FALSE]
    ELSE
        LET blocked_until == t + minutes * SecondsPerMinute
            lg == LogSuspiciousActivity(logs, ip, BlockedReason(reason), NoPath, t,
                      IF fault = "log_connect" THEN "connect"
                      ELSE IF fault = "log_insert" THEN "insert" ELSE NoFault)
        IN [raised |-> lg.raised,
            ledger |-> Upsert(ledger, ip, blocked_until, reason),
            logs |-> lg.logs, upserted |-> TRUE]

\* remove_expired_block(ip).  fault: "connect" (raises), "delete" (swallowed).
RemoveExpiredBlock(ledger, ip, fault) ==
    IF fault = "connect" THEN [raised |-> TRUE, ledger |-> ledger]
    ELSE IF fault = "delete" THEN [raised |-> FALSE, ledger |-> ledger]
    ELSE [raised |-> FALSE, ledger |-> Delete(ledger, ip)]

\* is_ip_blocked(ip).  fault: "connect" (raises), "select" (swallowed: returns
\* False), "delete_connect", "delete" (faults of the nested remove_expired_block).
\* found: what the SELECT saw; ops: ledger statements issued.
IsIpBlocked(ledger, ip, t, fault) ==
    IF fault = "connect" THEN
        [raised |-> TRUE, ret |-> FALSE, ledger |-> ledger, found |-> "error", ops |-> 0]
    ELSE IF fault = "select" THEN
        [raised |-> FALSE, ret |-> FALSE, ledger |-> ledger, found |-> "error", ops |-> 1]
    ELSE IF RowsOf(ledger, ip) = {} THEN
        [raised |-> FALSE, ret |-> FALSE, ledger |-> ledger, found |-> "none", ops |-> 1]
    ELSE
        LET row == CHOOSE r \in RowsOf(ledger, ip) : TRUE IN
        IF IsActive(row, t) THEN
            [raised |-> FALSE, ret |-> TRUE, ledger |-> ledger, found |-> "active",
             ops |-> 1]
        ELSE
            LET rm == RemoveExpiredBlock(ledger, ip,
                          IF fault = "delete_connect" THEN "connect"
                          ELSE IF fault = "delete" THEN "delete" ELSE NoFault)
            IN [raised |-> rm.raised, ret |-> FALSE, ledger |-> rm.ledger,
                found |-> "expired", ops |-> 2]

\* get_dashboard_data(): the two counts of the stats
\* (SELECT COUNT(*) ... WHERE reason LIKE 'IP BLOCKED:%'; the rows of
\* SELECT ... FROM blocked_ips WHERE blocked_until > now)
GetDashboardDataAllRows(ledger, logs, t) ==
    [total_blocked_events |->
         Cardinality({i \in DOMAIN logs : LikeBlocked(logs[i].reason)}),
     unique_blocked_ips |-> Cardinality(ledger)]
GetDashboardData(ledger, logs, t) ==
    [total_blocked_events |->
         Cardinality({i \in DOMAIN logs : LikeBlocked(logs[i].reason)}),
     unique_blocked_ips |-> Cardinality({row \in ledger : row.blocked_until > t})]

\* ---- siteguard_app.py: the two gates, as the code computes them ----
\* Which persistence call of a handler fails, and where: chk for is_ip_blocked,
\* blk for block_ip, log for the handler's own log_suspicious_activity call.
NoFaults == [chk |-> NoFault, blk |-> NoFault, log |-> NoFault]
FaultPlans ==
    {[NoFaults EXCEPT !.chk = x] : x \in {"connect", "select", "delete_connect", "delete"}}
    \cup {[NoFaults EXCEPT !.blk = x] : x \in {"connect", "upsert", "log_connect", "log_insert"}}
    \cup {[NoFaults EXCEPT !.log = x] : x \in {"connect", "insert"}}

\* siteguard_analysis (before_request), for request r at time t with fault plan f.
\* out: "pass" (returns None), "403" (abort(403)), "500" (an exception that is
\* no HTTPException leaves the handler).
SiteguardAnalysis(r, t, times, ledger, logs, f) ==
    IF IsDashboard(r.path) THEN
        [out |-> "pass", times |-> times, ledger |-> ledger, logs |-> logs,
         found |-> "skipped", ret |-> FALSE, wrote |-> FALSE,
         rowLeft |-> RowsOf(ledger, r.ip) # {}, ops |-> 0, upserted |-> FALSE]
    ELSE
        LET chk == IsIpBlocked(ledger, r.ip, t, f.chk)
            left == RowsOf(chk.ledger, r.ip) # {}
            wrote == chk.ledger # ledger
        IN
        IF chk.raised THEN
            [out |-> "500", times |-> times, ledger |-> chk.ledger, logs |-> logs,
             found |-> chk.found, ret |-> chk.ret, wrote |-> wrote,
             rowLeft |-> left, ops |-> chk.ops, upserted |-> FALSE]
        ELSE IF chk.ret THEN
            [out |-> "403", times |-> times, ledger |-> chk.ledger, logs |-> logs,
             found |-> chk.found, ret |-> chk.ret, wrote |-> wrote,
             rowLeft |-> left, ops |-> chk.ops, upserted |-> FALSE]
        ELSE
            LET valid_request_times == Prune(times, t, RATE_LIMIT_WINDOW) IN
            IF Exceeds(Len(valid_request_times), RATE_LIMIT_REQUESTS) THEN
                LET b == BlockIp(chk.ledger, logs, r.ip, RateBlock,
                                 BLOCK_DURATION_MINUTES, t, f.blk)
                IN [out |-> IF b.raised THEN "500" ELSE "403",
                    times |-> IF b.raised THEN times ELSE << >>,
                    ledger |-> b.ledger, logs |-> b.logs,
                    found |-> chk.found, ret |-> chk.ret, wrote |-> wrote,
                    rowLeft |-> left,
                    ops |-> chk.ops + (IF f.blk = "connect" THEN 0 ELSE 1),
                    upserted |-> b.upserted]
            ELSE
                [out |-> "pass", times |-> Append(valid_request_times, t),
                 ledger |-> chk.ledger, logs |-> logs,
                 found |-> chk.found, ret |-> chk.ret, wrote |-> wrote,
                 rowLeft |-> left, ops |-> chk.ops, upserted |-> FALSE]

\* One heuristic of siteguard_response_analysis: prune, compare, then block and
\* clear, or append and log.
ResponseCheckNoStop(r, t, times, ledger, logs, window, limit, blockReason, logReason, f) ==
    LET valid == Prune(times, t, window)
        b == BlockIp(ledger, logs, r.ip, blockReason, BLOCK_DURATION_MINUTES, t, f.blk)
        lg == LogSuspiciousActivity(IF Exceeds(Len(valid), limit) THEN b.logs ELSE logs,
                                    r.ip, <<logReason>>, r.path, t, f.log)
    IN IF Exceeds(Len(valid), limit)
       THEN [out |-> "403", times |-> <<t>>, ledger |-> b.ledger, logs |-> lg.logs,
             ops |-> 1, upserted |-> b.upserted]
       ELSE [out |-> IF lg.raised THEN "500" ELSE "pass",
             times |-> Append(valid, t), ledger |-> ledger, logs |-> lg.logs,
             ops |-> 0, upserted |-> FALSE]
ResponseCheck(r, t, times, ledger, logs, window, limit, blockReason, logReason, f) ==
    LET valid == Prune(times, t, window) IN
    IF Exceeds(Len(valid), limit) THEN
        LET b == BlockIp(ledger, logs, r.ip, blockReason, BLOCK_DURATION_MINUTES, t, f.blk)
        IN [out |-> IF b.raised THEN "500" ELSE "403",
            times |-> IF b.raised THEN times ELSE << >>,
            ledger |-> b.ledger, logs |-> b.logs,
            ops |-> IF f.blk = "connect" THEN 0 ELSE 1, upserted |-> b.upserted]
    ELSE
        LET lg == LogSuspiciousActivity(logs, r.ip, <<logReason>>, r.path, t, f.log)
        IN [out |-> IF lg.raised THEN "500" ELSE "pass",
            times |-> Append(valid, t), ledger |-> ledger, logs |-> lg.logs,
            ops |-> 0, upserted |-> FALSE]

\* path == '/login' and request.method == 'POST' and response.status_code == 401
IsFailedLoginOrMissing(r, status) == status = 401 \/ status = 404
IsFailedLogin(r, status) == r.path = LoginPath /\ r.method = "POST" /\ status = 401

\* siteguard_response_analysis (after_request), for the response `status` to
\* request r.  out: "pass" (the response is returned), "403" (abort(403)), "500".
\* A status is 401 or 404, never both, so at most one heuristic runs.
SiteguardResponseAnalysis(r, status, t, logins, scans, ledger, logs, f) ==
    IF IsDashboard(r.path) THEN
        [out |-> "pass", logins |-> logins, scans |-> scans, ledger |-> ledger,
         logs |-> logs, ops |-> 0, upserted |-> FALSE, kind |-> "skipped"]
    ELSE IF IsFailedLogin(r, status) THEN
        LET c == ResponseCheck(r, t, logins, ledger, logs, BRUTE_FORCE_WINDOW,
                               BRUTE_FORCE_ATTEMPTS, BruteBlock, "Failed Login", f)
        IN [out |-> c.out, logins |-> c.times, scans |-> scans, ledger |-> c.ledger,
            logs |-> c.logs, ops |-> c.ops, upserted |-> c.upserted, kind |-> "login"]
    ELSE IF status = 404 THEN
        LET c == ResponseCheck(r, t, scans, ledger, logs, DIR_SCAN_WINDOW,
                               DIR_SCAN_404S, ScanBlock,
                               "Page Not Found (404)", f)
        IN [out |-> c.out, logins |-> logins, scans |-> c.times, ledger |-> c.ledger,
            logs |-> c.logs, ops |-> c.ops, upserted |-> c.upserted, kind |-> "scan"]
    ELSE
        [out |-> "pass", logins |-> logins, scans |-> scans, ledger |-> ledger,
         logs |-> logs, ops |-> 0, upserted |-> FALSE, kind |-> "other"]

\* ---- the clients and the clock ----
BlockSeconds == BLOCK_DURATION_MINUTES * SecondsPerMinute

Clients(wl) == IF wl = "mixed" THEN IPs ELSE {"a"}

DashboardRequests(wl) ==
    [ip : Clients(wl), path : DashboardPaths, method : {"GET"}, form : {"-"}]

\* the non-dashboard requests the clients of a workload send
SiteRequests(wl) ==
    LET home == [ip : Clients(wl), path : {HomePath}, method : {"GET"}, form : {"-"}]
        login == [ip : Clients(wl), path : {LoginPath}, method : {"POST"}, form : {"bad"}]
        goodLogin == [ip : Clients(wl), path : {LoginPath}, method : {"POST"},
                      form : {"good"}]
        miss == [ip : Clients(wl), path : {MissingPath}, method : {"GET"}, form : {"-"}]
    IN CASE wl = "flood" -> home
         [] wl = "bruteforce" -> login
         [] wl = "scan" -> miss
         [] OTHER -> home \cup login \cup goodLogin \cup miss

MaxReq(wl) ==
    CASE wl = "flood" -> MaxFlood
      [] wl = "bruteforce" -> MaxLogin
      [] wl = "scan" -> MaxScan
      [] OTHER -> MaxMixed

\* half the window of the workload's heuristic, the window, the block duration
TickSteps(wl) ==
    CASE wl = "flood" -> {RATE_LIMIT_WINDOW \div 2, RATE_LIMIT_WINDOW, BlockSeconds}
      [] wl = "bruteforce" -> {BRUTE_FORCE_WINDOW \div 2, BRUTE_FORCE_WINDOW, BlockSeconds}
      [] wl = "scan" -> {DIR_SCAN_WINDOW \div 2, DIR_SCAN_WINDOW, BlockSeconds}
      [] OTHER -> {RATE_LIMIT_WINDOW, BlockSeconds}

\* RequestGate decisions so far, over all identities
RECURSIVE SumLen(_, _)
SumLen(f, S) ==
    IF S = {} THEN 0
    ELSE LET i == CHOOSE x \in S : TRUE IN Len(f[i]) + SumLen(f, S \ {i})
Handled == SumLen(hist, IPs)

\* the row an upsert has just written for ip, with the time of the call
Written(ledger, ip, t) ==
    LET row == CHOOSE x \in RowsOf(ledger, ip) : TRUE
    IN [t |-> t, until |-> row.blocked_until, reason |-> row.reason]

\* One persistence call fails in a behaviour at most, and only a call that the
\* handler makes: a plan whose failing call is not reached changes nothing.
MayFail(f, withFault, without) ==
    f = NoFaults \/ (~faulted /\ withFault # without)

NoReq == [ip |-> "-", path |-> << >>, method |-> "-", form |-> "-"]
NoLoc == [current_time |-> 0, valid |-> << >>, found |-> "none", wrote |-> FALSE,
          status |-> 0]

\* The process has just started: the trackers are empty (they live in memory),
\* the database is new.
Init ==
    /\ now = 0
    /\ ticks = 0
    /\ workload \in Workloads
    /\ ip_request_tracker = [i \in IPs |-> << >>]
    /\ ip_failed_login_tracker = [i \in IPs |-> << >>]
    /\ ip_404_tracker = [i \in IPs |-> << >>]
    /\ blocked_ips = {}
    /\ suspicious_logs = << >>
    /\ pc = [w \in Workers |-> "idle"]
    /\ req = [w \in Workers |-> NoReq]
    /\ loc = [w \in Workers |-> NoLoc]
    /\ hist = [i \in IPs |-> << >>]
    /\ resp = [i \in IPs |-> << >>]
    /\ blocks = [i \in IPs |-> << >>]
    /\ ledger_ops = 0
    /\ dash_errors = 0
    /\ faulted = FALSE

\* time passes
Tick ==
    /\ ticks < MaxTicks
    /\ \E d \in TickSteps(workload) : now' = now + d
    /\ ticks' = ticks + 1
    /\ UNCHANGED <<workload, trackers, database, pc, req, loc, ghosts, faulted>>

\* A worker takes request r and runs siteguard_analysis on it.  A rejection
\* (abort(403)) or an exception ends the request: the error response passes
\* after_request with a status that is neither 401 nor 404.
Receive(w, r, f) ==
    /\ pc[w] = "idle"
    /\ IsDashboard(r.path) \/ Handled < MaxReq(workload)
    /\ MayFail(f, SiteguardAnalysis(r, now, ip_request_tracker[r.ip], blocked_ips,
                                    suspicious_logs, f),
                  SiteguardAnalysis(r, now, ip_request_tracker[r.ip], blocked_ips,
                                    suspicious_logs, NoFaults))
    /\ faulted' = (faulted \/ f # NoFaults)
    /\ LET g == SiteguardAnalysis(r, now, ip_request_tracker[r.ip], blocked_ips,
                                  suspicious_logs, f)
       IN /\ ip_request_tracker' = [ip_request_tracker EXCEPT ![r.ip] = g.times]
          /\ blocked_ips' = g.ledger
          /\ suspicious_logs' = g.logs
          /\ pc' = [pc EXCEPT ![w] = IF g.out = "pass" THEN "view" ELSE "idle"]
          /\ req' = [req EXCEPT ![w] = IF g.out = "pass" THEN r ELSE NoReq]
          /\ hist' = IF IsDashboard(r.path) THEN hist
                     ELSE [hist EXCEPT ![r.ip] = Append(@,
                              [t |-> now, found |-> g.found, ret |-> g.ret,
                               wrote |-> g.wrote, rowLeft |-> g.rowLeft,
                               out |-> g.out, nblk |-> Len(blocks[r.ip])])]
          /\ blocks' = IF g.upserted
                       THEN [blocks EXCEPT ![r.ip] = Append(@, Written(g.ledger, r.ip, now))]
                       ELSE blocks
          /\ ledger_ops' = ledger_ops + g.ops
          /\ dash_errors' = dash_errors
                 + (IF StartsWith(r.path, DashboardPrefix) /\ g.out # "pass" THEN 1 ELSE 0)
    /\ UNCHANGED <<now, ticks, workload, ip_failed_login_tracker, ip_404_tracker,
                   loc, resp>>

\* The view (the proxy to the origin, or a dashboard view) has answered with
\* `status`; the worker runs siteguard_response_analysis on the response.
Respond(w, status, f) ==
    /\ pc[w] = "view"
    /\ MayFail(f, SiteguardResponseAnalysis(req[w], status, now,
                      ip_failed_login_tracker[req[w].ip], ip_404_tracker[req[w].ip],
                      blocked_ips, suspicious_logs, f),
                  SiteguardResponseAnalysis(req[w], status, now,
                      ip_failed_login_tracker[req[w].ip], ip_404_tracker[req[w].ip],
                      blocked_ips, suspicious_logs, NoFaults))
    /\ faulted' = (faulted \/ f # NoFaults)
    /\ LET r == req[w]
           a == SiteguardResponseAnalysis(r, status, now,
                    ip_failed_login_tracker[r.ip], ip_404_tracker[r.ip],
                    blocked_ips, suspicious_logs, f)
       IN /\ ip_failed_login_tracker' = [ip_failed_login_tracker EXCEPT ![r.ip] = a.logins]
          /\ ip_404_tracker' = [ip_404_tracker EXCEPT ![r.ip] = a.scans]
          /\ blocked_ips' = a.ledger
          /\ suspicious_logs' = a.logs
          /\ resp' = IF IsDashboard(r.path) THEN resp
                     ELSE [resp EXCEPT ![r.ip] = Append(@,
                              [t |-> now, status |-> status, kind |-> a.kind,
                               out |-> a.out])]
          /\ blocks' = IF a.upserted
                       THEN [blocks EXCEPT ![r.ip] = Append(@, Written(a.ledger, r.ip, now))]
                       ELSE blocks
          /\ ledger_ops' = ledger_ops + a.ops
          /\ dash_errors' = dash_errors
                 + (IF StartsWith(r.path, DashboardPrefix) /\ a.out # "pass" THEN 1 ELSE 0)
    /\ pc' = [pc EXCEPT ![w] = "idle"]
    /\ req' = [req EXCEPT ![w] = NoReq]
    /\ UNCHANGED <<now, ticks, workload, ip_request_tracker, loc, hist>>

\* a request for a dashboard path arrives
DashboardRequest ==
    \E r \in DashboardRequests(workload) : Receive(MainWorker, r, NoFaults)

\* a request for the protected site arrives
SiteRequest ==
    \E r \in SiteRequests(workload) : Receive(MainWorker, r, NoFaults)

\* the response to a forwarded request is analysed
Response ==
    Respond(MainWorker, OriginStatus(req[MainWorker]), NoFaults)

Next == Tick \/ DashboardRequest \/ SiteRequest \/ Response

\* Requests are handled one at a time; no persistence call fails.
Spec == Init /\ [][Next]_vars

\* ---- persistence calls may fail ----
FaultySiteRequest ==
    \E r \in SiteRequests(workload), f \in FaultPlans : Receive(MainWorker, r, f)

FaultyResponse ==
    \E f \in FaultPlans : Respond(MainWorker, OriginStatus(req[MainWorker]), f)

InitFault == Init /\ workload \in {"bruteforce", "mixed"}

NextFault == Next \/ FaultySiteRequest \/ FaultyResponse

\* Requests are handled one at a time; one sqlite3 call may fail.
SpecFault == InitFault /\ [][NextFault]_vars

\* ---- concurrent workers: one step per access to the clock, a tracker or ----
\* ---- the database (the handlers hold no lock)                          ----
GateSteps == {"chk_delete", "rate_time", "rate_read", "rate_write",
              "rate_upsert", "rate_log", "rate_clear"}

MaxConc(wl) == IF wl = "flood" THEN MaxConcFlood ELSE MaxConcLogin

\* requests taken so far
Started == Handled + Cardinality({w \in Workers : pc[w] \in GateSteps})

Goto(w, label) == pc' = [pc EXCEPT ![w] = label]

\* RequestGate is done with the request of w: outcome `out`
GateDone(w, out, rowLeft) ==
    /\ hist' = [hist EXCEPT ![req[w].ip] = Append(@,
                  [t |-> IF out = "pass" THEN loc[w].current_time ELSE now,
                   found |-> loc[w].found, ret |-> loc[w].found = "active",
                   wrote |-> loc[w].wrote, rowLeft |-> rowLeft, out |-> out,
                   nblk |-> Len(blocks[req[w].ip])])]
    /\ pc' = [pc EXCEPT ![w] = IF out = "pass" THEN "view" ELSE "idle"]
    /\ req' = [req EXCEPT ![w] = IF out = "pass" THEN req[w] ELSE NoReq]

\* A worker takes request r for the protected site; is_ip_blocked: the SELECT
\* and the comparison with the clock (siteguard_app.py:50-59, database.py:100-108)
Take(w, r) ==
    /\ pc[w] = "idle"
    /\ Started < MaxConc(workload)
    /\ ledger_ops' = ledger_ops + 1
    /\ LET rows == RowsOf(blocked_ips, r.ip)
           found == IF rows = {} THEN "none"
                    ELSE IF IsActive(CHOOSE x \in rows : TRUE, now) THEN "active"
                    ELSE "expired"
       IN /\ loc' = [loc EXCEPT ![w] = [NoLoc EXCEPT !.found = found]]
          /\ IF found = "active"
             THEN /\ hist' = [hist EXCEPT ![r.ip] = Append(@,
                                  [t |-> now, found |-> found, ret |-> TRUE,
                                   wrote |-> FALSE, rowLeft |-> TRUE, out |-> "403",
                                   nblk |-> Len(blocks[r.ip])])]
                  /\ UNCHANGED <<pc, req>>
             ELSE /\ Goto(w, IF found = "expired" THEN "chk_delete" ELSE "rate_time")
                  /\ req' = [req EXCEPT ![w] = r]
                  /\ UNCHANGED hist
    /\ UNCHANGED <<now, ticks, workload, trackers, database, resp, blocks,
                   dash_errors, faulted>>

\* remove_expired_block: the DELETE (database.py:127-128)
ChkDelete(w) ==
    /\ pc[w] = "chk_delete"
    /\ blocked_ips' = Delete(blocked_ips, req[w].ip)
    /\ loc' = [loc EXCEPT ![w].wrote = (blocked_ips' # blocked_ips)]
    /\ ledger_ops' = ledger_ops + 1
    /\ Goto(w, "rate_time")
    /\ UNCHANGED <<now, ticks, workload, trackers, suspicious_logs, req, hist, resp,
                   blocks, dash_errors, faulted>>

\* current_time = time.time() (siteguard_app.py:62); in the response gate, with
\* the answer the proxy got from the origin (siteguard_app.py:95, 151-188)
ReadClock(w) ==
    /\ pc[w] \in {"rate_time", "view"}
    /\ loc' = [loc EXCEPT ![w].current_time = now,
                          ![w].status = IF pc[w] = "view" THEN OriginStatus(req[w])
                                        ELSE @]
    /\ Goto(w, IF pc[w] = "rate_time" THEN "rate_read" ELSE "resp_read")
    /\ UNCHANGED <<now, ticks, workload, trackers, database, req, ghosts, faulted>>

\* the list comprehension over the shared list (siteguard_app.py:63-66)
RateRead(w) ==
    /\ pc[w] = "rate_read"
    /\ loc' = [loc EXCEPT ![w].valid =
                  Prune(ip_request_tracker[req[w].ip], loc[w].current_time,
                        RATE_LIMIT_WINDOW)]
    /\ Goto(w, "rate_write")
    /\ UNCHANGED <<now, ticks, workload, trackers, database, req, ghosts, faulted>>

\* the threshold test, then the append and the store (siteguard_app.py:68, 75-78)
RateWrite(w) ==
    /\ pc[w] = "rate_write"
    /\ IF Exceeds(Len(loc[w].valid), RATE_LIMIT_REQUESTS)
       THEN /\ Goto(w, "rate_upsert")
            /\ UNCHANGED <<ip_request_tracker, hist, req>>
       ELSE /\ ip_request_tracker' = [ip_request_tracker EXCEPT ![req[w].ip] =
                                         Append(loc[w].valid, loc[w].current_time)]
            /\ GateDone(w, "pass", RowsOf(blocked_ips, req[w].ip) # {})
    /\ UNCHANGED <<now, ticks, workload, ip_failed_login_tracker, ip_404_tracker,
                   database, loc, resp, blocks, ledger_ops, dash_errors, faulted>>

\* which heuristic a worker's block_ip call belongs to
BlockReasonAt(w) ==
    IF pc[w] \in {"rate_upsert", "rate_log", "rate_clear"} THEN RateBlock
    ELSE IF IsFailedLogin(req[w], loc[w].status) THEN BruteBlock ELSE ScanBlock

\* block_ip: the INSERT OR REPLACE and its commit (database.py:73-80)
BlockUpsert(w) ==
    /\ pc[w] \in {"rate_upsert", "resp_upsert"}
    /\ blocked_ips' = Upsert(blocked_ips, req[w].ip, now + BlockSeconds, BlockReasonAt(w))
    /\ blocks' = [blocks EXCEPT ![req[w].ip] =
                     Append(@, Written(blocked_ips', req[w].ip, now))]
    /\ ledger_ops' = ledger_ops + 1
    /\ Goto(w, IF pc[w] = "rate_upsert" THEN "rate_log" ELSE "resp_blocklog")
    /\ UNCHANGED <<now, ticks, workload, trackers, suspicious_logs, req, loc, hist,
                   resp, dash_errors, faulted>>

\* block_ip: the nested log_suspicious_activity (database.py:83)
BlockLog(w) ==
    /\ pc[w] \in {"rate_log", "resp_blocklog"}
    /\ suspicious_logs' =
          LogSuspiciousActivity(suspicious_logs, req[w].ip,
              BlockedReason(BlockReasonAt(w)), NoPath, now, NoFault).logs
    /\ Goto(w, IF pc[w] = "rate_log" THEN "rate_clear" ELSE "resp_clear")
    /\ UNCHANGED <<now, ticks, workload, trackers, blocked_ips, req, loc, ghosts,
                   faulted>>

\* the response of w's request is analysed no further: outcome `out`
ResponseDone(w, out) ==
    /\ resp' = [resp EXCEPT ![req[w].ip] = Append(@,
                  [t |-> loc[w].current_time, status |-> loc[w].status,
                   kind |-> IF IsFailedLogin(req[w], loc[w].status) THEN "login"
                            ELSE IF loc[w].status = 404 THEN "scan" ELSE "other",
                   out |-> out])]
    /\ Goto(w, "idle")
    /\ req' = [req EXCEPT ![w] = NoReq]

\* the tracker of the heuristic that matches the response of w
RespTracker(w) ==
    IF IsFailedLogin(req[w], loc[w].status) THEN ip_failed_login_tracker
    ELSE ip_404_tracker
RespWindow(w) ==
    IF IsFailedLogin(req[w], loc[w].status) THEN BRUTE_FORCE_WINDOW ELSE DIR_SCAN_WINDOW
RespLimit(w) ==
    IF IsFailedLogin(req[w], loc[w].status) THEN BRUTE_FORCE_ATTEMPTS ELSE DIR_SCAN_404S
SetRespTracker(w, times) ==
    IF IsFailedLogin(req[w], loc[w].status)
    THEN /\ ip_failed_login_tracker' = [ip_failed_login_tracker EXCEPT ![req[w].ip] = times]
         /\ UNCHANGED ip_404_tracker
    ELSE /\ ip_404_tracker' = [ip_404_tracker EXCEPT ![req[w].ip] = times]
         /\ UNCHANGED ip_failed_login_tracker

\* the test of the status, then the list comprehension
\* (siteguard_app.py:99-101, 115-117)
RespRead(w) ==
    /\ pc[w] = "resp_read"
    /\ IF IsFailedLogin(req[w], loc[w].status) \/ loc[w].status = 404
       THEN /\ loc' = [loc EXCEPT ![w].valid =
                          Prune(RespTracker(w)[req[w].ip], loc[w].current_time,
                                RespWindow(w))]
            /\ Goto(w, "resp_write")
            /\ UNCHANGED <<resp, req>>
       ELSE /\ ResponseDone(w, "pass")
            /\ UNCHANGED loc
    /\ UNCHANGED <<now, ticks, workload, trackers, database, hist, blocks, ledger_ops,
                   dash_errors, faulted>>

\* the threshold test, then the append and the store
\* (siteguard_app.py:103, 108-109, 119, 124-125)
RespWrite(w) ==
    /\ pc[w] = "resp_write"
    /\ IF Exceeds(Len(loc[w].valid), RespLimit(w))
       THEN /\ Goto(w, "resp_upsert")
            /\ UNCHANGED trackers
       ELSE /\ SetRespTracker(w, Append(loc[w].valid, loc[w].current_time))
            /\ Goto(w, "resp_log")
            /\ UNCHANGED ip_request_tracker
    /\ UNCHANGED <<now, ticks, workload, database, req, loc, ghosts, faulted>>

\* the tracker that crossed its limit is cleared and abort(403) raised
\* (siteguard_app.py:71-72, 105-106, 121-122)
Clear(w) ==
    /\ pc[w] \in {"rate_clear", "resp_clear"}
    /\ IF pc[w] = "rate_clear"
       THEN /\ ip_request_tracker' = [ip_request_tracker EXCEPT ![req[w].ip] = << >>]
            /\ GateDone(w, "403", RowsOf(blocked_ips, req[w].ip) # {})
            /\ UNCHANGED <<ip_failed_login_tracker, ip_404_tracker, resp>>
       ELSE /\ SetRespTracker(w, << >>)
            /\ ResponseDone(w, "403")
            /\ UNCHANGED <<ip_request_tracker, hist>>
    /\ UNCHANGED <<now, ticks, workload, database, loc, blocks, ledger_ops,
                   dash_errors, faulted>>

\* log_suspicious_activity for the failed login or the 404
\* (siteguard_app.py:112, 128)
RespLog(w) ==
    /\ pc[w] = "resp_log"
    /\ suspicious_logs' =
          LogSuspiciousActivity(suspicious_logs, req[w].ip,
              IF IsFailedLogin(req[w], loc[w].status) THEN <<"Failed Login">>
              ELSE <<"Page Not Found (404)">>,
              req[w].path, now, NoFault).logs
    /\ ResponseDone(w, "pass")
    /\ UNCHANGED <<now, ticks, workload, trackers, blocked_ips, loc, hist, blocks,
                   ledger_ops, dash_errors, faulted>>

\* The process starts with the database file of an earlier run: new, or
\* holding the block of "a" that the earlier run wrote BlockSeconds ago.
InitConc ==
    /\ workload \in {"flood", "bruteforce"}
    /\ ticks = 0
    /\ ip_request_tracker = [i \in IPs |-> << >>]
    /\ ip_failed_login_tracker = [i \in IPs |-> << >>]
    /\ ip_404_tracker = [i \in IPs |-> << >>]
    /\ pc = [w \in Workers |-> "idle"]
    /\ req = [w \in Workers |-> NoReq]
    /\ loc = [w \in Workers |-> NoLoc]
    /\ hist = [i \in IPs |-> << >>]
    /\ resp = [i \in IPs |-> << >>]
    /\ ledger_ops = 0
    /\ dash_errors = 0
    /\ faulted = FALSE
    /\ \/ /\ now = 0
          /\ blocked_ips = {}
          /\ suspicious_logs = << >>
          /\ blocks = [i \in IPs |-> << >>]
       \/ /\ now = BlockSeconds
          /\ blocked_ips = Upsert({}, "a", BlockSeconds, BruteBlock)
          /\ suspicious_logs =
                LogSuspiciousActivity(<< >>, "a", BlockedReason(BruteBlock), NoPath,
                                      0, NoFault).logs
          /\ blocks = [i \in IPs |->
                          IF i = "a" THEN <<Written(blocked_ips, "a", 0)>> ELSE << >>]

\* Time passes while the flood lasts.  The failed logins come within one
\* second, but for a block call that waits for the write lock of the database.
TickConc ==
    /\ \/ workload = "flood"
       \/ \E w \in Workers : pc[w] \in {"rate_upsert", "resp_upsert"}
    /\ Tick

NextConc ==
    \/ TickConc
    \/ \E w \in Workers, r \in SiteRequests(workload) : Take(w, r)
    \/ \E w \in Workers : ChkDelete(w)
    \/ \E w \in Workers : ReadClock(w)
    \/ \E w \in Workers : RateRead(w)
    \/ \E w \in Workers : RateWrite(w)
    \/ \E w \in Workers : BlockUpsert(w)
    \/ \E w \in Workers : BlockLog(w)
    \/ \E w \in Workers : RespRead(w)
    \/ \E w \in Workers : RespWrite(w)
    \/ \E w \in Workers : Clear(w)
    \/ \E w \in Workers : RespLog(w)

\* Two workers run the handlers at the same time, as under the threaded server
\* of app.run; no persistence call fails.
SpecConc == InitConc /\ [][NextConc]_vars

\* ---- what the ghosts record ----

Count(seq, P(_)) == Cardinality({i \in DOMAIN seq : P(seq[i])})

\* audit entries of ip whose reason is exactly `reason`
LogsOf(ip, reason) ==
    {i \in DOMAIN suspicious_logs :
        /\ suspicious_logs[i].ip_address = ip
        /\ suspicious_logs[i].reason = reason}

\* committed block calls of ip with `reason`
BlocksOf(ip, reason) == {k \in DOMAIN blocks[ip] : blocks[ip][k].reason = reason}

\* requests of ip that RequestGate let pass
Passed(ip) == {i \in DOMAIN hist[ip] : hist[ip][i].out = "pass"}

\* requests of ip that reached the view: answered already, or in flight
Forwarded(ip) ==
    Len(resp[ip])
      + Cardinality({w \in Workers :
            pc[w] # "idle" /\ req[w].ip = ip /\ ~StartsWith(req[w].path, DashboardPrefix)})

\* the first n entries of seq lie within `window` seconds
Within(seq, n, window) == Len(seq) >= n /\ seq[n].t - seq[1].t < window

\* ---- claims ----

\* C1: an identity that starts with an empty rate tracker and no block record
\* and sends RATE_LIMIT_REQUESTS + 1 = 21 non-dashboard requests within one
\* 10-second window has the first 20 allowed and the 21st rejected with 403,
\* and after the 21st a block record with reason "Rate Limit (DoS)" exists.
C1_TwentyFirstRejected ==
    \A ip \in IPs :
        (/\ Len(hist[ip]) = RATE_LIMIT_REQUESTS + 1
         /\ Within(hist[ip], RATE_LIMIT_REQUESTS + 1, RATE_LIMIT_WINDOW))
        => /\ \A i \in 1..RATE_LIMIT_REQUESTS : hist[ip][i].out = "pass"
           /\ hist[ip][RATE_LIMIT_REQUESTS + 1].out = "403"
           /\ \E row \in RowsOf(blocked_ips, ip) : row.reason = RateBlock

\* requests of ip up to the i-th that lie in the 10-second window ending with it
InWindow(ip, i) ==
    {j \in 1..i : hist[ip][i].t - hist[ip][j].t < RATE_LIMIT_WINDOW}

AtMostLimitPerWindow(ip) ==
    \A i \in DOMAIN hist[ip] : Cardinality(InWindow(ip, i)) <= RATE_LIMIT_REQUESTS

NoResponseBlock(ip) == \A k \in DOMAIN resp[ip] : resp[ip][k].out = "pass"

\* C2: an identity with no block from the failed-login or 404 heuristic, every
\* rolling 10-second window of which holds at most 20 of its non-dashboard
\* requests, has every request passed by RequestGate and forwarded, and no
\* "Rate Limit (DoS)" block is written for it.
C2_WithinLimitForwarded ==
    \A ip \in IPs :
        (NoResponseBlock(ip) /\ AtMostLimitPerWindow(ip))
        => /\ \A i \in DOMAIN hist[ip] : hist[ip][i].out = "pass"
           /\ Forwarded(ip) = Len(hist[ip])
           /\ BlocksOf(ip, RateBlock) = {}
           /\ LogsOf(ip, BlockedReason(RateBlock)) = {}
           /\ RowsOf(blocked_ips, ip) = {}

\* C2 witness: more than 21 requests in all, spread over time, all passed.
C2_Witness ==
    \E ip \in IPs :
        /\ Len(hist[ip]) > RATE_LIMIT_REQUESTS + 1
        /\ AtMostLimitPerWindow(ip)
        /\ \A i \in DOMAIN hist[ip] : hist[ip][i].out = "pass"
        /\ Forwarded(ip) = Len(hist[ip])

\* the request recorded in h came while a block written before it was running
DuringBlock(ip, h) ==
    \E k \in 1..h.nblk : h.t < blocks[ip][k].until

\* C3: once a block record is written at time t, with blocked_until = t + 10
\* minutes, every non-dashboard request of that identity that arrives before
\* blocked_until is rejected with 403 and not forwarded.
C3_BlockedUntilExpiry ==
    \A ip \in IPs :
        /\ \A k \in DOMAIN blocks[ip] :
              blocks[ip][k].until = blocks[ip][k].t + BLOCK_DURATION_MINUTES * 60
        /\ \A i \in DOMAIN hist[ip] :
              DuringBlock(ip, hist[ip][i]) => hist[ip][i].out = "403"
        /\ Forwarded(ip) = Cardinality(Passed(ip))

\* C3 witness: a request rejected some time after the block was written.
C3_Witness ==
    \E ip \in IPs : \E i \in DOMAIN hist[ip] :
        /\ DuringBlock(ip, hist[ip][i])
        /\ hist[ip][i].t > blocks[ip][hist[ip][i].nblk].t
        /\ hist[ip][i].found = "active"
        /\ hist[ip][i].out = "403"

\* the first n responses to ip were all of `kind`, within `window` seconds
FirstAll(ip, n, kind, window) ==
    /\ Len(resp[ip]) = n
    /\ \A k \in 1..n : resp[ip][k].kind = kind
    /\ Within(resp[ip], n, window)

\* C4: starting from an empty failed-login tracker and no block record,
\* BRUTE_FORCE_ATTEMPTS + 1 = 6 consecutive 401 responses to POST /login within
\* 300 s produce exactly one "Brute Force" block, triggered by the 6th, and each
\* of the first 5 produces one "Failed Login" audit entry.
C4_SixthFailedLoginBlocks ==
    \A ip \in IPs :
        FirstAll(ip, BRUTE_FORCE_ATTEMPTS + 1, "login", BRUTE_FORCE_WINDOW)
        => /\ Cardinality(BlocksOf(ip, BruteBlock)) = 1
           /\ resp[ip][BRUTE_FORCE_ATTEMPTS + 1].out = "403"
           /\ \A k \in 1..BRUTE_FORCE_ATTEMPTS : resp[ip][k].out = "pass"
           /\ Cardinality(LogsOf(ip, <<"Failed Login">>)) = BRUTE_FORCE_ATTEMPTS

\* C5: starting from an empty 404 tracker and no block record, DIR_SCAN_404S + 1
\* = 11 consecutive 404 responses within 60 s produce exactly one "Directory
\* Scan (404s)" block, triggered by the 11th, and none before it.
C5_EleventhNotFoundBlocks ==
    \A ip \in IPs :
        FirstAll(ip, DIR_SCAN_404S + 1, "scan", DIR_SCAN_WINDOW)
        => /\ Cardinality(BlocksOf(ip, ScanBlock)) = 1
           /\ resp[ip][DIR_SCAN_404S + 1].out = "403"
           /\ \A k \in 1..DIR_SCAN_404S : resp[ip][k].out = "pass"

\* a worker takes a dashboard request / answers one
DashboardTaken(w) ==
    pc[w] = "idle" /\ pc'[w] # "idle" /\ StartsWith(req'[w].path, DashboardPrefix)
DashboardAnswered(w) ==
    pc[w] # "idle" /\ pc'[w] = "idle" /\ StartsWith(req[w].path, DashboardPrefix)

\* C6: a request whose path starts with /siteguard_dashboard is allowed by
\* RequestGate and skipped by ResponseGate, whatever the identity and the
\* response status: no gate answers it with an error, no tracker changes, and
\* the gates neither read nor write the ledger (nor the audit log).
C6_DashboardBypass ==
    [][/\ dash_errors' = dash_errors
       /\ \A w \in Workers :
            (DashboardTaken(w) \/ DashboardAnswered(w))
            => UNCHANGED <<trackers, database, ledger_ops, hist, resp, blocks>>]_vars

\* C6 witness: a dashboard request of an identity with an active block record
\* has passed RequestGate, and its response will be a 404.
C6_Witness ==
    \E w \in Workers :
        /\ pc[w] = "view"
        /\ StartsWith(req[w].path, DashboardPrefix)
        /\ OriginStatus(req[w]) = 404
        /\ \E row \in RowsOf(blocked_ips, req[w].ip) : row.blocked_until > now
        /\ dash_errors = 0

\* C7: after blocked_until has elapsed, the next is_blocked check of the
\* identity returns false and leaves no record of it in the ledger; a check
\* that follows it immediately also returns false, raises no error and leaves
\* the ledger unchanged.
C7_IdempotentExpiry ==
    \A ip \in IPs : \A i \in DOMAIN hist[ip] :
        hist[ip][i].found = "expired"
        => /\ ~hist[ip][i].ret
           /\ ~hist[ip][i].rowLeft
           /\ hist[ip][i].out # "500"
           /\ (i + 1 \in DOMAIN hist[ip] /\ hist[ip][i + 1].nblk = hist[ip][i].nblk)
              => /\ hist[ip][i + 1].found = "none"
                 /\ ~hist[ip][i + 1].ret
                 /\ ~hist[ip][i + 1].wrote
                 /\ ~hist[ip][i + 1].rowLeft
                 /\ hist[ip][i + 1].out # "500"

\* C7 witness: a check found an expired record and the next check came at once.
C7_Witness ==
    \E ip \in IPs : \E i \in DOMAIN hist[ip] :
        /\ hist[ip][i].found = "expired"
        /\ hist[ip][i].wrote
        /\ i + 1 \in DOMAIN hist[ip]
        /\ hist[ip][i + 1].t = hist[ip][i].t
        /\ hist[ip][i + 1].found = "none"

\* the audit entries of ip that record a block, in order
BlockLogs(ip) ==
    SelectSeq(suspicious_logs,
              LAMBDA e : e.ip_address = ip /\ LikeBlocked(e.reason))

\* C10: every block call upserts the block record and appends exactly one
\* audit entry with reason "IP BLOCKED: <reason>" and the placeholder path, as
\* one effect: whenever no handler is running, also when persistence writes can
\* fail, the k-th committed ledger write of an identity has its audit entry.
C10_BlockAndAuditTogether ==
    (\A w \in Workers : pc[w] \in {"idle", "view"})
    => \A ip \in IPs :
        /\ Len(BlockLogs(ip)) = Len(blocks[ip])
        /\ \A k \in DOMAIN blocks[ip] :
              /\ BlockLogs(ip)[k].reason = <<"IP BLOCKED:", " ", blocks[ip][k].reason>>
              /\ BlockLogs(ip)[k].request_path = <<"N/A">>
              /\ BlockLogs(ip)[k].timestamp = blocks[ip][k].t

\* a worker is inside RequestGate with a request of ip
InGate(ip) ==
    \E w \in Workers :
        pc[w] \in {"chk_delete", "rate_time", "rate_read", "rate_write",
                   "rate_upsert", "rate_log", "rate_clear"} /\ req[w].ip = ip

\* C8: with concurrent workers on one identity, the lazy-expiry delete of
\* is_ip_blocked removes only an expired record: no step takes from the ledger
\* a record that is active (blocked_until > now) when the step is taken.
C8_ActiveRecordNeverDeleted ==
    [][\A ip \in IPs :
          (\E row \in RowsOf(blocked_ips, ip) : row.blocked_until > now)
          => RowsOf(blocked_ips', ip) # {}]_vars

\* C9: with concurrent workers on one identity, every request RequestGate
\* allowed has added exactly one timestamp to the identity's rate-tracker list:
\* once no worker is inside RequestGate for the identity (and no rate block has
\* cleared its list), the in-window entries of the list are as many as the
\* in-window requests that were allowed.
C9_OneEntryPerAllowedRequest ==
    \A ip \in IPs :
        (~InGate(ip) /\ BlocksOf(ip, RateBlock) = {})
        => Cardinality({j \in DOMAIN ip_request_tracker[ip] :
                            now - ip_request_tracker[ip][j] < RATE_LIMIT_WINDOW})
             = Cardinality({i \in Passed(ip) : now - hist[ip][i].t < RATE_LIMIT_WINDOW})

\* ---- helpers of the claims on ResponseGate ----
\* the entries of times that are less than `window` seconds old at time t
Recent(times, t, window) == SelectSeq(times, LAMBDA x : t - x < window)

\* the tracker list, the window and the limit of the heuristic `kind`
KindTracker(kind, ip) ==
    IF kind = "login" THEN ip_failed_login_tracker[ip] ELSE ip_404_tracker[ip]
\* the same list after the step
KindTrackerNext(kind, ip) ==
    IF kind = "login" THEN ip_failed_login_tracker'[ip] ELSE ip_404_tracker'[ip]
KindWindow(kind) == IF kind = "login" THEN BRUTE_FORCE_WINDOW ELSE DIR_SCAN_WINDOW
KindLimit(kind) == IF kind = "login" THEN BRUTE_FORCE_ATTEMPTS ELSE DIR_SCAN_404S
KindBlock(kind) == IF kind = "login" THEN BruteBlock ELSE ScanBlock

\* this step is ResponseGate handling a response to ip
Answered(ip) == Len(resp'[ip]) = Len(resp[ip]) + 1
\* this step is RequestGate deciding on a request of ip
Decided(ip) == Len(hist'[ip]) = Len(hist[ip]) + 1

\* the response handled in this step is over the limit of its heuristic
OverLimit(ip, kind) ==
    Len(Recent(KindTracker(kind, ip), now, KindWindow(kind))) > KindLimit(kind)

\* C11: when a persistence operation inside is_blocked fails (opening the
\* connection, the lookup, or the delete of an expired record), is_blocked
\* returns false and no exception reaches RequestGate: the request goes on to
\* the rate check as for an unblocked identity.
C11_LookupFailsOpen ==
    \A ip \in IPs : \A i \in DOMAIN hist[ip] :
        (hist[ip][i].found = "error"
            \/ (hist[ip][i].found = "expired" /\ hist[ip][i].rowLeft))
        => /\ ~hist[ip][i].ret
           /\ hist[ip][i].out = "pass"

\* C12: when the append of an audit entry for a failed login or a 404 fails
\* (opening the connection or the insert), no exception reaches ResponseGate:
\* every response that is not over its limit is returned unchanged and the
\* tracker keeps the event recorded for it.
C12_LogFailureSwallowed ==
    [][\A ip \in IPs :
          Answered(ip) =>
            LET e == resp'[ip][Len(resp'[ip])] IN
            (e.kind \in {"login", "scan"} /\ ~OverLimit(ip, e.kind))
            => /\ e.out = "pass"
               /\ KindTrackerNext(e.kind, ip) =
                     Append(Recent(KindTracker(e.kind, ip), now, KindWindow(e.kind)),
                            now)]_vars

\* a worker's block call commits its upsert in this step
Upserts(w) == pc[w] \in {"rate_upsert", "resp_upsert"} /\ pc'[w] # pc[w]

\* C13: the ledger never holds more than one record of an identity, and a
\* block call for an identity that already has a record replaces it: after the
\* call the only record of the identity has blocked_until = now + 10 minutes
\* and the reason of that call.
C13_OneRecordPerIdentity ==
    [][/\ \A ip \in IPs : Cardinality(RowsOf(blocked_ips', ip)) <= 1
       /\ \A w \in Workers :
            Upserts(w) =>
              RowsOf(blocked_ips', req[w].ip) =
                 {[ip_address |-> req[w].ip,
                   blocked_until |-> now + BLOCK_DURATION_MINUTES * 60,
                   reason |-> IF pc[w] = "rate_upsert" THEN RateBlock
                              ELSE IF loc[w].status = 401 THEN BruteBlock
                              ELSE ScanBlock]}]_vars

\* C13 witness: a second block call has replaced the record that an earlier
\* call wrote and that was still active.
C13_Witness ==
    \E ip \in IPs :
        /\ Len(blocks[ip]) >= 2
        /\ LET old == blocks[ip][Len(blocks[ip]) - 1]
               new == blocks[ip][Len(blocks[ip])]
           IN /\ new.t > old.t
              /\ new.t < old.until
              /\ blocked_ips = {[ip_address |-> ip, blocked_until |-> new.until,
                                 reason |-> new.reason]}

\* a worker is serving /siteguard_dashboard/data: dashboard_data() runs
ServesData(w) == pc[w] = "view" /\ req[w].path = DashboardDataPath

\* C14: whenever the dashboard data is queried, after any history of gate
\* operations, total_blocked_events is the number of audit entries whose
\* reason starts with "IP BLOCKED:" (one for each block call made), and
\* unique_blocked_ips is the number of block records with blocked_until > now,
\* which is the number of identities is_blocked would return true for; an
\* expired record not yet deleted is not counted.
C14_DashboardCounts ==
    \A w \in Workers :
        ServesData(w) =>
          LET d == GetDashboardData(blocked_ips, suspicious_logs, now) IN
          /\ d.total_blocked_events =
                Cardinality({i \in DOMAIN suspicious_logs :
                                StartsWith(suspicious_logs[i].reason, <<"IP BLOCKED:">>)})
          /\ d.total_blocked_events = SumLen(blocks, IPs)
          /\ d.unique_blocked_ips =
                Cardinality({row \in blocked_ips : row.blocked_until > now})
          /\ d.unique_blocked_ips =
                Cardinality({ip \in IPs : IsIpBlocked(blocked_ips, ip, now, NoFault).ret})

\* C14 witness: the data is queried while the ledger holds a record that has
\* expired and is not yet deleted; one block event is counted, no blocked identity.
C14_Witness ==
    \E w \in Workers :
        /\ ServesData(w)
        /\ \E row \in blocked_ips : row.blocked_until <= now
        /\ GetDashboardData(blocked_ips, suspicious_logs, now) =
              [total_blocked_events |-> 1, unique_blocked_ips |-> 0]

\* C15: a failed-login or 404 response that is over the limit of its
\* heuristic makes ResponseGate call block with that heuristic's reason, empty
\* the identity's list of that heuristic, answer 403 and stop: the event is not
\* appended to the tracker, the only audit entry written is the one of the
\* block ("Failed Login" / "Page Not Found (404)" is not logged for it), and
\* no other tracker is touched.
C15_ResponseBlockStops ==
    [][\A ip \in IPs :
          Answered(ip) =>
            LET e == resp'[ip][Len(resp'[ip])] IN
            (e.kind \in {"login", "scan"} /\ OverLimit(ip, e.kind))
            => /\ e.out = "403"
               /\ blocks'[ip] =
                     Append(blocks[ip],
                            [t |-> now, until |-> now + BLOCK_DURATION_MINUTES * 60,
                             reason |-> KindBlock(e.kind)])
               /\ RowsOf(blocked_ips', ip) =
                     {[ip_address |-> ip,
                       blocked_until |-> now + BLOCK_DURATION_MINUTES * 60,
                       reason |-> KindBlock(e.kind)]}
               /\ KindTrackerNext(e.kind, ip) = << >>
               /\ suspicious_logs' =
                     Append(suspicious_logs,
                            [ip_address |-> ip, timestamp |-> now,
                             reason |-> <<"IP BLOCKED:", " ", KindBlock(e.kind)>>,
                             request_path |-> <<"N/A">>])
               /\ ip_request_tracker' = ip_request_tracker
               /\ e.kind = "login" => ip_404_tracker' = ip_404_tracker
               /\ e.kind = "scan" => ip_failed_login_tracker' = ip_failed_login_tracker]_vars

\* C15 witness: the last response to an identity was over the limit and was
\* answered 403; its list is empty and the last audit entry is the block's.
C15_Witness ==
    \E ip \in IPs :
        /\ resp[ip] # << >>
        /\ resp[ip][Len(resp[ip])].out = "403"
        /\ resp[ip][Len(resp[ip])].kind \in {"login", "scan"}
        /\ KindTracker(resp[ip][Len(resp[ip])].kind, ip) = << >>
        /\ suspicious_logs # << >>
        /\ LikeBlocked(suspicious_logs[Len(suspicious_logs)].reason)
        /\ ip_request_tracker[ip] # << >>

\* the lists of `tracker` other than the one of ip are the same after the step
OthersKept(tracker, ip) ==
    \A other \in IPs \ {ip} : tracker'[other] = tracker[other]

\* C16: the heuristics share no counter.  RequestGate handling a request
\* changes at most the rate list of the request's identity; ResponseGate
\* handling a 401 to POST /login changes at most the failed-login list of that
\* identity, handling a 404 at most its 404 list, handling any other response
\* nothing; this includes the emptying of a list by a block.
C16_NoSharedCounters ==
    [][\A w \in Workers :
          /\ (pc[w] = "idle" /\ pc'[w] = "view" /\ Decided(req'[w].ip))
             => /\ OthersKept(ip_request_tracker, req'[w].ip)
                /\ UNCHANGED <<ip_failed_login_tracker, ip_404_tracker>>
          /\ \A ip \in IPs :
                (pc[w] = "idle" /\ pc'[w] = "idle" /\ Decided(ip))
                => /\ OthersKept(ip_request_tracker, ip)
                   /\ UNCHANGED <<ip_failed_login_tracker, ip_404_tracker>>
          /\ (pc[w] = "view" /\ pc'[w] = "idle" /\ Answered(req[w].ip))
             => LET r == req[w]
                    status == OriginStatus(r)
                IN /\ UNCHANGED ip_request_tracker
                   /\ IF r.path = <<"/login">> /\ r.method = "POST" /\ status = 401
                      THEN /\ OthersKept(ip_failed_login_tracker, r.ip)
                           /\ UNCHANGED ip_404_tracker
                      ELSE IF status = 404
                      THEN /\ OthersKept(ip_404_tracker, r.ip)
                           /\ UNCHANGED ip_failed_login_tracker
                      ELSE UNCHANGED <<ip_failed_login_tracker, ip_404_tracker>>]_vars

\* C16 witness: one identity has failed logins recorded and no 404, another
\* has a 404 recorded and no failed login; both have their requests recorded.
C16_Witness ==
    \E ip \in IPs : \E other \in IPs \ {ip} :
        /\ ip_failed_login_tracker[ip] # << >>
        /\ ip_404_tracker[ip] = << >>
        /\ ip_404_tracker[other] # << >>
        /\ ip_failed_login_tracker[other] = << >>
        /\ ip_request_tracker[ip] # << >>
        /\ ip_request_tracker[other] # << >>

\* ip has a block record that is active now
ActiveNow(ip) == \E row \in RowsOf(blocked_ips, ip) : row.blocked_until > now

\* the audit entries of ip
EntriesOf(logs, ip) == SelectSeq(logs, LAMBDA e : e.ip_address = ip)

\* this step changes no tracker list of ip, calls no block and logs nothing for it
Untouched(ip) ==
    /\ ip_request_tracker'[ip] = ip_request_tracker[ip]
    /\ ip_failed_login_tracker'[ip] = ip_failed_login_tracker[ip]
    /\ ip_404_tracker'[ip] = ip_404_tracker[ip]
    /\ blocks'[ip] = blocks[ip]
    /\ EntriesOf(suspicious_logs', ip) = EntriesOf(suspicious_logs, ip)

\* in this step a worker takes a request of ip: the worker leaves "idle" with
\* it, or RequestGate has decided on it at once
Arrives(ip) ==
    \/ \E w \in Workers : pc[w] = "idle" /\ pc'[w] # "idle" /\ req'[w].ip = ip
    \/ pc' = pc /\ Decided(ip)

\* this step is the rest of the block call that wrote the record: its audit
\* entry, or the emptying of the list that follows it
EndsBlockCall ==
    \E w \in Workers :
        /\ pc[w] \in {"rate_log", "resp_blocklog", "rate_clear", "resp_clear"}
        /\ pc'[w] # pc[w]

\* C17 (as stated): while an identity has an active block record, in every
\* interleaving no step changes one of its tracker lists, calls block for it or
\* writes an audit entry for it, also not the handling of a response to a
\* request that passed RequestGate before the block was written.
C17_NothingChangesWhileBlocked ==
    [][\A ip \in IPs : (ActiveNow(ip) /\ ~EndsBlockCall) => Untouched(ip)]_vars

\* C17 (amended): while an identity has an active block record, in every
\* interleaving each request of it that arrives is rejected with 403 by the
\* lookup, before it reaches any tracker: taking it changes no tracker list, no
\* table and calls no block.
C17_ArrivalsRejectedWhileBlocked ==
    [][\A ip \in IPs :
          (ActiveNow(ip) /\ Arrives(ip))
          => /\ pc' = pc
             /\ Decided(ip)
             /\ hist'[ip][Len(hist'[ip])].out = "403"
             /\ Untouched(ip)
             /\ UNCHANGED <<trackers, database, blocks, resp>>]_vars

\* C17 witness: with interleaved workers, a request of an identity came while
\* its block record was active and was rejected.
C17_Witness ==
    \E ip \in IPs :
        /\ ActiveNow(ip)
        /\ hist[ip] # << >>
        /\ hist[ip][Len(hist[ip])].found = "active"
        /\ hist[ip][Len(hist[ip])].out = "403"
        /\ hist[ip][Len(hist[ip])].t = now
        /\ \E w \in Workers : pc[w] # "idle" /\ req[w].ip = ip

\* the entries of times that are at most `window` seconds old at time t
NotOlder(times, t, window) == SelectSeq(times, LAMBDA x : t - x <= window)

\* C18: the window count of each gate discards exactly the entries older than
\* the window: an event recorded at t is counted at `now` iff now - t <= window
\* (an event exactly `window` seconds old is still counted), and the list
\* stored for an allowed event is the counted entries followed by the new one.
C18_WindowIsInclusive ==
    [][\A ip \in IPs :
          /\ (Decided(ip) /\ hist'[ip][Len(hist'[ip])].out = "pass")
             => ip_request_tracker'[ip] =
                   Append(NotOlder(ip_request_tracker[ip], now, RATE_LIMIT_WINDOW), now)
          /\ Answered(ip) =>
               LET e == resp'[ip][Len(resp'[ip])] IN
               (e.kind \in {"login", "scan"} /\ e.out = "pass")
               => KindTrackerNext(e.kind, ip) =
                     Append(NotOlder(KindTracker(e.kind, ip), now, KindWindow(e.kind)),
                            now)]_vars

\* ip has a block record, and the time it runs until has come
ExpiredNow(ip) ==
    /\ RowsOf(blocked_ips, ip) # {}
    /\ \A row \in RowsOf(blocked_ips, ip) : now >= row.blocked_until

\* C19: no block is permanent.  With requests handled one at a time, the first
\* non-dashboard request of an identity that arrives at now >= blocked_until is
\* allowed and forwarded to the origin, its lookup deletes the expired record,
\* and afterwards the rate list of the identity holds that request alone.
C19_BlockEnds ==
    [][\A ip \in IPs :
          (ExpiredNow(ip) /\ Decided(ip))
          => /\ hist'[ip][Len(hist'[ip])].out = "pass"
             /\ \E w \in Workers :
                   pc[w] = "idle" /\ pc'[w] = "view" /\ req'[w].ip = ip
                     /\ ~StartsWith(req'[w].path, DashboardPrefix)
             /\ RowsOf(blocked_ips', ip) = {}
             /\ ip_request_tracker'[ip] = <<now>>]_vars

\* C19 witness: a request that came at the very second its identity's block
\* ran out has passed RequestGate; requests of that identity were recorded in
\* the rate list before the block.
C19_Witness ==
    \E ip \in IPs :
        /\ hist[ip] # << >>
        /\ blocks[ip] # << >>
        /\ LET h == hist[ip][Len(hist[ip])] IN
           /\ h.found = "expired"
           /\ h.out = "pass"
           /\ h.t = blocks[ip][Len(blocks[ip])].until
           /\ Len(hist[ip]) > 2
        /\ RowsOf(blocked_ips, ip) = {}
        /\ ip_request_tracker[ip] = <<now>>

\* the timestamps of times never decrease
Ordered(times) ==
    \A i \in DOMAIN times : \A j \in DOMAIN times : i < j => times[i] <= times[j]

\* C20: in every reachable state, also with concurrent workers, the rate list
\* of an identity has at most RATE_LIMIT_REQUESTS + 1 = 21 entries, its
\* failed-login list at most BRUTE_FORCE_ATTEMPTS + 1 = 6, its 404 list at most
\* DIR_SCAN_404S + 1 = 11, and the entries of each list are in non-decreasing
\* timestamp order.
C20_ListsBoundedAndOrdered ==
    \A ip \in IPs :
        /\ Len(ip_request_tracker[ip]) <= RATE_LIMIT_REQUESTS + 1
        /\ Len(ip_failed_login_tracker[ip]) <= BRUTE_FORCE_ATTEMPTS + 1
        /\ Len(ip_404_tracker[ip]) <= DIR_SCAN_404S + 1
        /\ Ordered(ip_request_tracker[ip])
        /\ Ordered(ip_failed_login_tracker[ip])
        /\ Ordered(ip_404_tracker[ip])

====
